---- MODULE Spec2Model ----
(***************************************************************************)
(* Model of the workout-tracking data-access layer (crud.py) over the      *)
(* SQLModel tables of models.py, stored in one SQLite file.                *)
(*                                                                         *)
(* Spec     : requests handled one at a time; every action is one whole    *)
(*            call of a crud.py function.                                  *)
(* SpecDeps : the same, with rows in the tables that reference User.       *)
(* SpecRace : two requests run update_user on the same row concurrently;   *)
(*            every action is one statement of update_user.                *)
(***************************************************************************)
EXTENDS Integers, FiniteSets, Sequences, TLC

VARIABLES db, session, last, issued, pc, req, local

vars == <<db, session, last, issued, pc, req, local>>

(* ------------------------------ bounds --------------------------------- *)

\* largest primary key the model lets the store assign
MaxId == 2

\* largest number of rows in each dependent table
MaxLogs == 1

(* --------------------------- Python values ----------------------------- *)

\* the value None where a str is expected (an omitted Optional[str]);
\* it is not a str
PyNone == "<None>"

\* the value None where a User object is expected
NoneObj == [none |-> TRUE]

\* the str values requests carry as username and as email
Usernames == {"", "alice", "bob"}

Emails == {"", "a@x.com"}

\* bool(v) for v a str or None
Truthy(v) == v # PyNone /\ v # ""

\* the identifiers requests carry: every assignable key and one key the
\* store never assigns within the bound
Ids == 1 .. (MaxId + 1)

(* ------------------------------ the store ------------------------------ *)

User(id, username, email) == [id |-> id, username |-> username, email |-> email]

\* WorkoutLog and PerformanceStats rows: key and user reference (the other
\* columns are payload no operation reads or writes)
WorkoutLog(id, user_id) == [id |-> id, user_id |-> user_id]

PerformanceStats(id, user_id) == [id |-> id, user_id |-> user_id]

SetMax(S) == CHOOSE m \in S : \A x \in S : x <= m

\* the key SQLite gives a row inserted with id = None into a table whose
\* key is INTEGER PRIMARY KEY (no AUTOINCREMENT): one more than the largest
\* key present, 1 in an empty table
NextRowidBad(table) == Cardinality(table) + 1

NextRowid(table) == IF table = {} THEN 1 ELSE SetMax({r.id : r \in table}) + 1

\* metadata.create_all on a new file: three empty tables
EmptyDb == [user |-> {}, workoutlog |-> {}, performancestats |-> {}]

(* --------------------------- Session methods --------------------------- *)

\* session.get(User, user_id): the row with that key, or None
session_get(d, user_id) ==
    IF \E r \in d.user : r.id = user_id
    THEN CHOOSE r \in d.user : r.id = user_id
    ELSE NoneObj

\* the two conditional assignments of update_user on the loaded object;
\* assigning an attribute of None raises AttributeError
set_fieldsBad(user, username, email) ==
    IF user = NoneObj
    THEN [outcome |-> IF username # PyNone \/ email # PyNone
                      THEN "AttributeError" ELSE "ok", user |-> NoneObj]
    ELSE [outcome |-> "ok",
          user |-> [user EXCEPT
                      !.username = IF username # PyNone THEN username ELSE @,
                      !.email = IF email # PyNone THEN email ELSE @]]

set_fields(user, username, email) ==
    IF user = NoneObj
    THEN [outcome |-> IF Truthy(username) \/ Truthy(email)
                      THEN "AttributeError" ELSE "ok", user |-> NoneObj]
    ELSE [outcome |-> "ok",
          user |-> [user EXCEPT
                      !.username = IF Truthy(username) THEN username ELSE @,
                      !.email = IF Truthy(email) THEN email ELSE @]]

\* session.add(user); session.commit() of update_user.  add(None) raises
\* UnmappedInstanceError.  The flush emits UPDATE user SET <the columns
\* whose value differs from the loaded one> WHERE id = <key>; no UPDATE when
\* nothing differs; an UPDATE matching no row raises StaleDataError.
flush_updateBad(d, loaded, user) ==
    IF user = NoneObj THEN [outcome |-> "UnmappedInstanceError", db |-> d]
    ELSE IF user = loaded THEN [outcome |-> "ok", db |-> d]
    ELSE IF ~ \E r \in d.user : r.id = loaded.id
    THEN [outcome |-> "StaleDataError", db |-> d]
    ELSE [outcome |-> "ok",
          db |-> [d EXCEPT !.user =
                    {IF r.id = loaded.id THEN user ELSE r : r \in d.user}]]

flush_update(d, loaded, user) ==
    IF user = NoneObj THEN [outcome |-> "UnmappedInstanceError", db |-> d]
    ELSE IF user = loaded THEN [outcome |-> "ok", db |-> d]
    ELSE IF ~ \E r \in d.user : r.id = loaded.id
    THEN [outcome |-> "StaleDataError", db |-> d]
    ELSE [outcome |-> "ok",
          db |-> [d EXCEPT !.user =
                    {IF r.id = loaded.id
                     THEN [r EXCEPT
                             !.username = IF user.username # loaded.username
                                          THEN user.username ELSE @,
                             !.email = IF user.email # loaded.email
                                       THEN user.email ELSE @]
                     ELSE r : r \in d.user}]]

\* session.refresh(user): reload the object's row by its key
refresh(d, user) ==
    IF \E r \in d.user : r.id = user.id
    THEN [outcome |-> "ok", user |-> CHOOSE r \in d.user : r.id = user.id]
    ELSE [outcome |-> "InvalidRequestError", user |-> NoneObj]

\* the result of a with-block body: the exception raised ("ok" for none),
\* the value returned, the committed store
Body(outcome, ret, d) ==
    [outcome |-> outcome, ret |-> ret, db |-> d, session |-> "open"]

\* leaving `with Session(engine) as session:` closes the session, on return
\* and on exception alike; an exception propagates and nothing is returned
with_SessionBad(res) ==
    IF res.outcome = "ok"
    THEN [res EXCEPT !.session = "closed"]
    ELSE [res EXCEPT !.ret = NoneObj]

with_Session(res) ==
    IF res.outcome = "ok"
    THEN [res EXCEPT !.session = "closed"]
    ELSE [res EXCEPT !.session = "closed", !.ret = NoneObj]

(* ------------------------------- crud.py ------------------------------- *)

create_userBad(d, username, email) ==
    LET user == User(NextRowid(d.user), email, username)
        d1 == [d EXCEPT !.user = @ \cup {user}]
        r == refresh(d1, user)
    IN with_Session(Body(r.outcome, r.user, d1))

create_user(d, username, email) ==
    LET user == User(NextRowid(d.user), username, email)
        d1 == [d EXCEPT !.user = @ \cup {user}]
        r == refresh(d1, user)
    IN with_Session(Body(r.outcome, r.user, d1))

get_userBad(d, user_id) ==
    LET rows == {r \in d.user : r.id = user_id}
    IN with_Session(
         IF rows # {} THEN Body("ok", CHOOSE r \in rows : TRUE, d)
         ELSE IF d.user # {} THEN Body("ok", CHOOSE r \in d.user : TRUE, d)
         ELSE Body("NoResultFound", NoneObj, d))

\* result.one(): exactly one row, else NoResultFound / MultipleResultsFound
get_user(d, user_id) ==
    LET rows == {r \in d.user : r.id = user_id}
    IN with_Session(
         IF Cardinality(rows) = 1 THEN Body("ok", CHOOSE r \in rows : TRUE, d)
         ELSE IF rows = {} THEN Body("NoResultFound", NoneObj, d)
         ELSE Body("MultipleResultsFound", NoneObj, d))

update_user(d, user_id, username, email) ==
    LET loaded == session_get(d, user_id)
        s == set_fields(loaded, username, email)
        f == flush_update(d, loaded, s.user)
        r == refresh(f.db, s.user)
    IN with_Session(
         IF s.outcome # "ok" THEN Body(s.outcome, NoneObj, d)
         ELSE IF f.outcome # "ok" THEN Body(f.outcome, NoneObj, d)
         ELSE Body(r.outcome, r.user, f.db))

delete_userNoop(d, user_id) ==
    LET user == session_get(d, user_id)
    IN with_Session(
         IF user = NoneObj THEN Body("UnmappedInstanceError", NoneObj, d)
         ELSE Body("ok", NoneObj, d))

delete_userCascade(d, user_id) ==
    LET user == session_get(d, user_id)
    IN with_Session(
         IF user = NoneObj THEN Body("UnmappedInstanceError", NoneObj, d)
         ELSE Body("ok", NoneObj,
                   [user |-> d.user \ {user},
                    workoutlog |-> {l \in d.workoutlog : l.user_id # user_id},
                    performancestats |->
                      {p \in d.performancestats : p.user_id # user_id}]))

delete_userSilent(d, user_id) ==
    LET user == session_get(d, user_id)
    IN with_Session(Body("ok", NoneObj, [d EXCEPT !.user = @ \ {user}]))

\* session.delete(None) raises UnmappedInstanceError; otherwise the flush
\* emits DELETE FROM user WHERE id = <key> and nothing else (the model
\* declares no relationship, and the engine does not turn foreign keys on)
delete_user(d, user_id) ==
    LET user == session_get(d, user_id)
    IN with_Session(
         IF user = NoneObj THEN Body("UnmappedInstanceError", NoneObj, d)
         ELSE Body("ok", NoneObj, [d EXCEPT !.user = @ \ {user}]))

(* ---------------------- one request at a time -------------------------- *)

Reqs == {"r1", "r2"}

Call(op, id, username, email, res) ==
    [op |-> op, id |-> id, username |-> username, email |-> email,
     outcome |-> res.outcome, ret |-> res.ret]

NoCall == [op |-> "none", id |-> 0, username |-> PyNone, email |-> PyNone,
           outcome |-> "ok", ret |-> NoneObj]

NoLocal == [loaded |-> NoneObj, user |-> NoneObj]

NoReq == [id |-> 0, username |-> PyNone, email |-> PyNone]

Init ==
    /\ db = EmptyDb
    /\ session = "closed"
    /\ last = NoCall
    /\ issued = {}
    /\ pc = [r \in Reqs |-> "idle"]
    /\ req = [r \in Reqs |-> NoReq]
    /\ local = [r \in Reqs |-> NoLocal]

Finish(op, id, username, email, res) ==
    /\ db' = res.db
    /\ session' = res.session
    /\ last' = Call(op, id, username, email, res)
    /\ UNCHANGED <<pc, req, local>>

CreateUser ==
    \E username \in Usernames, email \in Emails :
      LET res == create_user(db, username, email) IN
        /\ NextRowid(db.user) <= MaxId
        /\ Finish("create_user", 0, username, email, res)
        /\ issued' = issued \cup {res.ret.id}

GetUser ==
    \E user_id \in Ids :
      /\ Finish("get_user", user_id, PyNone, PyNone, get_user(db, user_id))
      /\ UNCHANGED issued

UpdateUser ==
    \E user_id \in Ids, username \in Usernames \cup {PyNone},
       email \in Emails \cup {PyNone} :
      /\ Finish("update_user", user_id, username, email,
                update_user(db, user_id, username, email))
      /\ UNCHANGED issued

DeleteUser ==
    \E user_id \in Ids :
      /\ Finish("delete_user", user_id, PyNone, PyNone, delete_user(db, user_id))
      /\ UNCHANGED issued

\* a WorkoutLog row written to the store: one insert, its user reference
\* resolving at write time
InsertWorkoutLog ==
    \E user_id \in Ids :
      /\ Cardinality(db.workoutlog) < MaxLogs
      /\ \E u \in db.user : u.id = user_id
      /\ db' = [db EXCEPT !.workoutlog =
                  @ \cup {WorkoutLog(NextRowid(@), user_id)}]
      /\ last' = [NoCall EXCEPT !.op = "insert_workoutlog", !.id = user_id]
      /\ UNCHANGED <<session, issued, pc, req, local>>

InsertPerformanceStats ==
    \E user_id \in Ids :
      /\ Cardinality(db.performancestats) < MaxLogs
      /\ \E u \in db.user : u.id = user_id
      /\ db' = [db EXCEPT !.performancestats =
                  @ \cup {PerformanceStats(NextRowid(@), user_id)}]
      /\ last' = [NoCall EXCEPT !.op = "insert_performancestats", !.id = user_id]
      /\ UNCHANGED <<session, issued, pc, req, local>>

Next ==
    \/ CreateUser
    \/ GetUser
    \/ UpdateUser
    \/ DeleteUser

Spec == Init /\ [][Next]_vars

(* ------------- one request at a time, dependent rows present ----------- *)

\* the calls that add and remove User rows, and the inserts into the two
\* tables that reference them
NextDeps ==
    \/ CreateUser
    \/ DeleteUser
    \/ InsertWorkoutLog
    \/ InsertPerformanceStats

SpecDeps == Init /\ [][NextDeps]_vars

(* ------------- two concurrent update_user on the same row -------------- *)

\* the emails the concurrent requests post
RaceEmails == {"a@x.com", "a2@x.com"}

\* one stored User; r1 posts a username only, r2 an email only
InitRace ==
    /\ \E username \in Usernames, email \in Emails :
         db = [EmptyDb EXCEPT !.user = {User(1, username, email)}]
    /\ session = "closed"
    /\ last = NoCall
    /\ issued = {1}
    /\ pc = [r \in Reqs |-> "get"]
    /\ \E username \in Usernames \ {""}, email \in RaceEmails,
          b1 \in {"", PyNone}, b2 \in {"", PyNone} :
         req = [r \in Reqs |->
                  IF r = "r1"
                  THEN [id |-> 1, username |-> username, email |-> b1]
                  ELSE [id |-> 1, username |-> b2, email |-> email]]
    /\ local = [r \in Reqs |-> NoLocal]

\* user = session.get(User, user_id)
UpdateGet ==
    \E r \in Reqs :
      /\ pc[r] = "get"
      /\ LET user == session_get(db, req[r].id) IN
           local' = [local EXCEPT ![r] = [loaded |-> user, user |-> user]]
      /\ pc' = [pc EXCEPT ![r] = "set"]
      /\ UNCHANGED <<db, session, last, issued, req>>

\* if username: user.username = username; if email: user.email = email
UpdateSet ==
    \E r \in Reqs :
      /\ pc[r] = "set"
      /\ LET s == set_fields(local[r].user, req[r].username, req[r].email) IN
           /\ local' = [local EXCEPT ![r].user = s.user]
           /\ pc' = [pc EXCEPT ![r] = IF s.outcome = "ok" THEN "commit" ELSE "failed"]
      /\ UNCHANGED <<db, session, last, issued, req>>

\* session.add(user); session.commit()
UpdateCommit ==
    \E r \in Reqs :
      /\ pc[r] = "commit"
      /\ LET f == flush_update(db, local[r].loaded, local[r].user) IN
           /\ db' = f.db
           /\ pc' = [pc EXCEPT ![r] = IF f.outcome = "ok" THEN "refresh" ELSE "failed"]
      /\ UNCHANGED <<session, last, issued, req, local>>

\* session.refresh(user); return user
UpdateRefresh ==
    \E r \in Reqs :
      /\ pc[r] = "refresh"
      /\ LET f == refresh(db, local[r].user) IN
           /\ local' = [local EXCEPT ![r].user = f.user]
           /\ pc' = [pc EXCEPT ![r] = IF f.outcome = "ok" THEN "done" ELSE "failed"]
      /\ UNCHANGED <<db, session, last, issued, req>>

NextRace ==
    \/ UpdateGet
    \/ UpdateSet
    \/ UpdateCommit
    \/ UpdateRefresh

SpecRace == InitRace /\ [][NextRace]_vars

(* ------------------------------ properties ----------------------------- *)

Resolves(d, id) == \E r \in d.user : r.id = id

\* C1: create_user then get_user on the returned identifier yields exactly
\* the username and email passed, whatever other users are stored; the
\* first create on an empty store returns identifier 1.
CreateThenRead ==
    [][last'.op = "create_user" =>
         /\ last'.outcome = "ok"
         /\ get_user(db', last'.ret.id).outcome = "ok"
         /\ get_user(db', last'.ret.id).ret.username = last'.username
         /\ get_user(db', last'.ret.id).ret.email = last'.email
         /\ (db.user = {} => last'.ret.id = 1)]_vars

CreateThenReadWitness ==
    /\ last.op = "create_user"
    /\ last.username # last.email
    /\ \E r \in db.user : r.id # last.ret.id

\* C2: update_user on an existing User overwrites exactly the fields whose
\* replacement is truthy; a field whose replacement is "" or None keeps its
\* previous value, and no other row changes.
UpdateOnlyTruthy ==
    [][(last'.op = "update_user" /\ Resolves(db, last'.id)) =>
         LET old == session_get(db, last'.id)
             new == User(old.id,
                         IF Truthy(last'.username) THEN last'.username
                         ELSE old.username,
                         IF Truthy(last'.email) THEN last'.email
                         ELSE old.email)
         IN /\ last'.outcome = "ok"
            /\ last'.ret = new
            /\ db'.user = (db.user \ {old}) \cup {new}]_vars

UpdateOnlyTruthyWitness ==
    /\ last.op = "update_user"
    /\ last.outcome = "ok"
    /\ last.username = ""
    /\ Truthy(last.email)
    /\ last.ret.username = "bob"

\* C3: get_user fails with NoResultFound, returning no User, for every
\* identifier create_user never returned.
NeverIssuedNotFound ==
    /\ \A id \in Ids \ issued :
         /\ get_user(db, id).outcome = "NoResultFound"
         /\ get_user(db, id).ret = NoneObj
    /\ (last.op = "get_user" /\ last.id \notin issued) =>
         (last.outcome = "NoResultFound" /\ last.ret = NoneObj)

NeverIssuedNotFoundWitness ==
    /\ last.op = "get_user"
    /\ last.id \notin issued
    /\ db.user # {}
    /\ Cardinality(issued) > Cardinality(db.user)

\* C4: after a successful delete_user(id), get_user(id) fails with
\* NoResultFound, and it goes on failing until a create_user returns that
\* identifier again.
DeleteThenRead ==
    [][/\ (last'.op = "delete_user" /\ last'.outcome = "ok") =>
            get_user(db', last'.id).outcome = "NoResultFound"
       /\ \A id \in Ids :
            (get_user(db, id).outcome = "NoResultFound"
             /\ get_user(db', id).outcome = "ok")
            => (last'.op = "create_user" /\ last'.ret.id = id)]_vars

DeleteThenReadWitness ==
    /\ last.op = "delete_user"
    /\ last.outcome = "ok"
    /\ last.id \in issued
    /\ db.user # {}

\* C5: delete_user on an identifier that resolves to no User fails with an
\* error; it never completes successfully.
DeleteMissingFails ==
    [][(last'.op = "delete_user" /\ ~Resolves(db, last'.id)) =>
         last'.outcome # "ok"]_vars

DeleteMissingFailsWitness ==
    /\ last.op = "delete_user"
    /\ last.outcome = "UnmappedInstanceError"
    /\ db.user # {}

\* C6: update_user on an identifier that resolves to no User fails with a
\* not-found condition for every combination of replacement values, and
\* returns no User.
UpdateMissingNotFound ==
    [][(last'.op = "update_user" /\ ~Resolves(db, last'.id)) =>
         (last'.outcome = "NoResultFound" /\ last'.ret = NoneObj)]_vars

\* C7: no two stored Users share an identifier; create_user assigns an
\* identifier no stored User holds, duplicates of username and email
\* included; update_user leaves every identifier as it was.
KeysUniqueImmutable ==
    /\ [](\A r1 \in db.user, r2 \in db.user : r1.id = r2.id => r1 = r2)
    /\ [][/\ last'.op = "create_user" =>
               (~Resolves(db, last'.ret.id) /\ last'.ret \in db'.user)
          /\ last'.op = "update_user" =>
               /\ {r.id : r \in db'.user} = {r.id : r \in db.user}
               /\ Cardinality(db'.user) = Cardinality(db.user)
               /\ last'.outcome = "ok" => last'.ret.id = last'.id]_vars

KeysUniqueImmutableWitness ==
    /\ last.op = "create_user"
    /\ \E r \in db.user : /\ r.id # last.ret.id
                          /\ r.username = last.username
                          /\ r.email = last.email

\* C8: delete_user removes the User row and nothing else: every WorkoutLog
\* and PerformanceStats row stays, those referencing the deleted User
\* included.
DeleteKeepsDependents ==
    [][last'.op = "delete_user" =>
         /\ db'.workoutlog = db.workoutlog
         /\ db'.performancestats = db.performancestats
         /\ db'.user = {r \in db.user : r.id # last'.id}]_vars

\* a WorkoutLog and a PerformanceStats row reference a User that is gone
DeleteKeepsDependentsWitness ==
    /\ last.op = "delete_user"
    /\ last.outcome = "ok"
    /\ \E l \in db.workoutlog : l.user_id = last.id
    /\ \E p \in db.performancestats : p.user_id = last.id
    /\ ~Resolves(db, last.id)

\* C9: a get_user, update_user or delete_user that fails leaves every table
\* as it was and leaves no session open.
FailureLeavesStore ==
    [][(last'.op \in {"get_user", "update_user", "delete_user"}
        /\ last'.outcome # "ok") =>
         (db' = db /\ session' = "closed")]_vars

FailureLeavesStoreWitness ==
    /\ last.op = "update_user"
    /\ last.outcome # "ok"
    /\ db.user # {}

\* C10: two concurrent update_user on one User, r1 with a username only and
\* r2 with an email only: each commit changes no field its request left
\* empty, and once both are done the row carries both new values.
RaceNoLostUpdate ==
    /\ [][\A r \in Reqs : (pc[r] = "commit" /\ pc'[r] # "commit") =>
            \A u \in db.user : \E v \in db'.user :
               /\ v.id = u.id
               /\ ~Truthy(req[r].username) => v.username = u.username
               /\ ~Truthy(req[r].email) => v.email = u.email]_vars
    /\ []((\A r \in Reqs : pc[r] = "done") =>
            db.user = {User(1, req["r1"].username, req["r2"].email)})

\* both done, r2 having loaded the row before r1 committed its username
RaceNoLostUpdateWitness ==
    /\ \A r \in Reqs : pc[r] = "done"
    /\ local["r2"].loaded.username # req["r1"].username
    /\ local["r1"].loaded.email # req["r2"].email
    /\ db.user = {User(1, req["r1"].username, req["r2"].email)}

====
